---- MODULE Spec2Model ----
(***************************************************************************)
(* Model of main.py: a Hydra entry point main(cfg) that drives the MLflow  *)
(* tracking backend and the filesystem.  Every invocation of main is a     *)
(* process of its own (one per job of a sweep); the processes share the    *)
(* backend (experiments, runs) and the filesystem (dirs, files).           *)
(* One action per statement of main that touches state.  The backend       *)
(* calls are modelled by their MLflow contract: create_experiment rejects  *)
(* a name that exists, set_experiment gets or creates, start_run allocates *)
(* a fresh run id, a parameter key is write-once, metrics are appended.    *)
(* mlflow's active experiment and active run are state of the process, so  *)
(* they are per invocation here.                                           *)
(***************************************************************************)
EXTENDS Integers, Sequences, FiniteSets, TLC

\* number of invocations of main (jobs of one sweep)
NumProcs == 2
\* largest n_epochs a configuration carries
MaxEpochs == 2

Procs == 1..NumProcs

VARIABLES
    cfg,                \* cfg[p]: the configuration Hydra hands to invocation p
    pc,                 \* pc[p]: the statement of main invocation p is at
    err,                \* err[p]: the exception that ended invocation p, if any
    n_epochs,           \* local n_epochs of invocation p
    found,              \* result of the lookup of line 79 (is not None)
    activerun,          \* local activerun of invocation p: its run id, 0 before start_run
    savedir,            \* local savedir of invocation p, <<>> before line 102
    epoch,              \* loop variable of invocation p, -1 before the loop
    param_calls,        \* param_calls[p][k]: log calls main issued for key k
    experiments,        \* backend: sequence of experiments, the id is the index
    active_experiment,  \* mlflow's process-global active experiment id, 0 = unset
    runs,               \* backend: sequence of runs, the run id is the index
    dirs,               \* filesystem: the directories that exist
    files               \* filesystem: the files that exist

vars == <<cfg, pc, err, n_epochs, found, activerun, savedir, epoch, param_calls,
          experiments, active_experiment, runs, dirs, files>>

locals == <<n_epochs, found, activerun, savedir, epoch>>

-----------------------------------------------------------------------------
(* Configurations *)

RunName == "trial1"
\* " ".join(sys.argv): the command line of the invocation
CmdLine == "main.py runname=trial1"
\* values a configuration may give to a key named argv
ArgvValues == {"x", CmdLine}

RequiredKeys == {"expname", "runname", "n_epochs", "lr", "batch_size"}

\* the p-th value of the swept key lr
LrOf(p) == p

FullConfig(e, n, l) ==
    [expname |-> e, runname |-> RunName, n_epochs |-> n, lr |-> l, batch_size |-> 8]

Drop(c, k) == [x \in (DOMAIN c) \ {k} |-> c[x]]

WithArgv(c, v) == [x \in (DOMAIN c) \cup {"argv"} |-> IF x = "argv" THEN v ELSE c[x]]

\* a configuration is full, lacks one required key, or carries an extra key argv
Shapes == {<<"full", "">>} \cup {<<"drop", k>> : k \in RequiredKeys}
              \cup {<<"argv", v>> : v \in ArgvValues}

Shape(c, s) ==
    IF s[1] = "drop" THEN Drop(c, s[2])
    ELSE IF s[1] = "argv" THEN WithArgv(c, s[2])
    ELSE c

Has(p, k) == k \in DOMAIN cfg[p]

\* the experiment names of the jobs of one command: the first jobs share
\* "demo", the jobs after the k-th (if any) share "other"
ExpNameMaps ==
    {[p \in Procs |-> IF p <= k THEN "demo" ELSE "other"] : k \in Procs}

-----------------------------------------------------------------------------
(* Names of main.py *)

ModuleGlobals ==
    {"sys", "Path", "random", "plt", "hydra", "mlflow", "wd",
     "TRACKING_URI", "ARTIFACT_URI", "main"}

MainLocals ==
    {"cfg", "n_epochs", "lr", "batch_size", "activerun", "savedir",
     "epoch", "eval_metrics", "fig", "ax"}

\* a name read in main resolves when main or the module binds it
IsBound(name) == name \in MainLocals \cup ModuleGlobals

\* f"{k:02d}"
Fmt02d(k) == IF k < 10 THEN "0" \o ToString(k) ELSE ToString(k)

-----------------------------------------------------------------------------
(* Paths *)

Prefixes(path) == {SubSeq(path, 1, n) : n \in 1..Len(path)}

ARTIFACT_URI == <<"mlruns">>

\* savedir = wd / "outputs" / f"{cfg.expname}/{activerun.info.run_id}"
SavedirPath_byname(p) == <<"outputs", cfg[p].expname, cfg[p].runname>>
SavedirPath(p) == <<"outputs", cfg[p].expname, ToString(activerun[p])>>

StaleDir == <<"outputs", "demo", "1">>
StaleFile == Append(StaleDir, "stale.csv")

-----------------------------------------------------------------------------
(* Tracking backend *)

NoParams == [k \in {} |-> ""]

Merge(a, b) == [k \in (DOMAIN a) \cup (DOMAIN b) |-> IF k \in DOMAIN b THEN b[k] ELSE a[k]]

get_experiment_by_name(name) == {i \in DOMAIN experiments : experiments[i].name = name}

\* create_experiment: the backend rejects a name that exists
create_experiment_dup(name, artifact_location) ==
    [ok |-> TRUE,
     exps |-> Append(experiments, [name |-> name, artifact_location |-> artifact_location])]
create_experiment(name, artifact_location) ==
    IF get_experiment_by_name(name) # {}
    THEN [ok |-> FALSE, exps |-> experiments]
    ELSE [ok |-> TRUE,
          exps |-> Append(experiments,
                          [name |-> name, artifact_location |-> artifact_location])]

\* a batch of parameters is rejected when it changes the value of a key the run holds
params_accepted(run, d) ==
    \A k \in (DOMAIN d) \cap (DOMAIN run.params) : run.params[k] = d[k]

Count(calls, k) == IF k \in DOMAIN calls THEN calls[k] ELSE 0

Issued(calls, keys) ==
    [k \in (DOMAIN calls) \cup keys |-> Count(calls, k) + (IF k \in keys THEN 1 ELSE 0)]

Point(key, step, value) == [key |-> key, step |-> step, value |-> value]

-----------------------------------------------------------------------------
(* The invocations *)

Init ==
    /\ \E n \in 0..MaxEpochs, s \in Shapes, e \in ExpNameMaps :
          cfg = [p \in Procs |-> Shape(FullConfig(e[p], n, LrOf(p)), s)]
    /\ pc = [p \in Procs |-> "unpack"]
    /\ err = [p \in Procs |-> [type |-> "", at |-> ""]]
    /\ n_epochs = [p \in Procs |-> 0]
    /\ found = [p \in Procs |-> FALSE]
    /\ activerun = [p \in Procs |-> 0]
    /\ savedir = [p \in Procs |-> <<>>]
    /\ epoch = [p \in Procs |-> -1]
    /\ param_calls = [p \in Procs |-> NoParams]
    /\ experiments = <<[name |-> "Default", artifact_location |-> <<"mlruns", "0">>]>>
    /\ active_experiment = [p \in Procs |-> 0]
    /\ runs = <<>>
    /\ \/ dirs = {} /\ files = {}
       \/ dirs = Prefixes(StaleDir) /\ files = {StaleFile}

\* an exception propagates out of main: nothing catches it
Raise(p, type) ==
    /\ pc' = [pc EXCEPT ![p] = "failed"]
    /\ err' = [err EXCEPT ![p] = [type |-> type, at |-> pc[p]]]

Goto(p, label) ==
    /\ pc' = [pc EXCEPT ![p] = label]
    /\ err' = err

\* lines 71-73: n_epochs = cfg.n_epochs; lr = cfg.lr; batch_size = cfg.batch_size
Unpack_unchecked(p) ==
    /\ pc[p] = "unpack"
    /\ n_epochs' = [n_epochs EXCEPT ![p] = IF Has(p, "n_epochs") THEN cfg[p].n_epochs ELSE 0]
    /\ Goto(p, "get_experiment")
    /\ UNCHANGED <<cfg, found, activerun, savedir, epoch, param_calls, experiments,
                   active_experiment, runs, dirs, files>>
Unpack(p) ==
    /\ pc[p] = "unpack"
    /\ IF {"n_epochs", "lr", "batch_size"} \subseteq DOMAIN cfg[p]
       THEN /\ n_epochs' = [n_epochs EXCEPT ![p] = cfg[p].n_epochs]
            /\ Goto(p, "get_experiment")
       ELSE /\ Raise(p, "ConfigAttributeError")
            /\ UNCHANGED n_epochs
    /\ UNCHANGED <<cfg, found, activerun, savedir, epoch, param_calls, experiments,
                   active_experiment, runs, dirs, files>>

\* line 79: if mlflow.get_experiment_by_name(cfg.expname) is None
GetExperiment(p) ==
    /\ pc[p] = "get_experiment"
    /\ IF Has(p, "expname")
       THEN /\ found' = [found EXCEPT ![p] = get_experiment_by_name(cfg[p].expname) # {}]
            /\ Goto(p, IF found'[p] THEN "set_experiment" ELSE "create_experiment")
       ELSE /\ Raise(p, "ConfigAttributeError")
            /\ UNCHANGED found
    /\ UNCHANGED <<cfg, n_epochs, activerun, savedir, epoch, param_calls, experiments,
                   active_experiment, runs, dirs, files>>

\* lines 80-82: mlflow.create_experiment(name=cfg.expname, artifact_location=...)
CreateExperiment(p) ==
    /\ pc[p] = "create_experiment"
    /\ LET r == create_experiment(cfg[p].expname, Append(ARTIFACT_URI, cfg[p].expname))
       IN  IF r.ok
           THEN experiments' = r.exps /\ Goto(p, "set_experiment")
           ELSE UNCHANGED experiments /\ Raise(p, "MlflowException")
    /\ UNCHANGED <<cfg, locals, param_calls, active_experiment, runs, dirs, files>>

\* line 83: mlflow.set_experiment(cfg.expname), which creates the experiment
\* at the default artifact location when the name is unknown
SetExperiment(p) ==
    /\ pc[p] = "set_experiment"
    /\ LET name == cfg[p].expname
           exps == IF get_experiment_by_name(name) = {}
                   THEN Append(experiments,
                               [name |-> name,
                                artifact_location |-> Append(ARTIFACT_URI, "default")])
                   ELSE experiments
           id == CHOOSE i \in DOMAIN exps :
                    /\ exps[i].name = name
                    /\ \A j \in DOMAIN exps : exps[j].name = name => i <= j
       IN  /\ experiments' = exps
           /\ active_experiment' = [active_experiment EXCEPT ![p] = id]
    /\ Goto(p, "start_run")
    /\ UNCHANGED <<cfg, locals, param_calls, runs, dirs, files>>

\* line 94: activerun = mlflow.start_run(run_name=cfg.runname)
NewRun(p) ==
    [experiment_id |-> active_experiment[p], run_name |-> cfg[p].runname,
     status |-> "active", params |-> NoParams, metrics |-> <<>>, artifacts |-> {}]

StartRun_resume(p) ==
    /\ pc[p] = "start_run"
    /\ IF Has(p, "runname")
       THEN /\ IF runs = <<>>
               THEN /\ runs' = Append(runs, NewRun(p))
                    /\ activerun' = [activerun EXCEPT ![p] = Len(runs) + 1]
               ELSE /\ runs' = [runs EXCEPT ![Len(runs)].status = "active"]
                    /\ activerun' = [activerun EXCEPT ![p] = Len(runs)]
            /\ Goto(p, "savedir")
       ELSE /\ Raise(p, "ConfigAttributeError")
            /\ UNCHANGED <<runs, activerun>>
    /\ UNCHANGED <<cfg, n_epochs, found, savedir, epoch, param_calls, experiments,
                   active_experiment, dirs, files>>
StartRun(p) ==
    /\ pc[p] = "start_run"
    /\ IF Has(p, "runname")
       THEN /\ runs' = Append(runs, NewRun(p))
            /\ activerun' = [activerun EXCEPT ![p] = Len(runs) + 1]
            /\ Goto(p, "savedir")
       ELSE /\ Raise(p, "ConfigAttributeError")
            /\ UNCHANGED <<runs, activerun>>
    /\ UNCHANGED <<cfg, n_epochs, found, savedir, epoch, param_calls, experiments,
                   active_experiment, dirs, files>>

\* lines 102-104: savedir = ...; if not savedir.exists(): savedir.mkdir(parents=True)
Savedir(p) ==
    /\ pc[p] = "savedir"
    /\ savedir' = [savedir EXCEPT ![p] = SavedirPath(p)]
    /\ dirs' = IF SavedirPath(p) \in dirs THEN dirs ELSE dirs \cup Prefixes(SavedirPath(p))
    /\ Goto(p, "log_params")
    /\ UNCHANGED <<cfg, n_epochs, found, activerun, epoch, param_calls, experiments,
                   active_experiment, runs, files>>

\* line 111: mlflow.log_params(cfg)
LogParams(p) ==
    /\ pc[p] = "log_params"
    /\ param_calls' = [param_calls EXCEPT ![p] = Issued(@, DOMAIN cfg[p])]
    /\ IF params_accepted(runs[activerun[p]], cfg[p])
       THEN /\ runs' = [runs EXCEPT ![activerun[p]].params = Merge(@, cfg[p])]
            /\ Goto(p, "log_param")
       ELSE /\ Raise(p, "MlflowException")
            /\ UNCHANGED runs
    /\ UNCHANGED <<cfg, locals, experiments, active_experiment, dirs, files>>

\* line 115: mlflow.log_param("argv", " ".join(sys.argv))
LogParam_skipped(p) ==
    /\ pc[p] = "log_param"
    /\ Goto(p, "for")
    /\ UNCHANGED <<cfg, locals, param_calls, runs, experiments, active_experiment,
                   dirs, files>>
LogParam(p) ==
    /\ pc[p] = "log_param"
    /\ param_calls' = [param_calls EXCEPT ![p] = Issued(@, {"argv"})]
    /\ LET d == [k \in {"argv"} |-> CmdLine]
       IN  IF params_accepted(runs[activerun[p]], d)
           THEN /\ runs' = [runs EXCEPT ![activerun[p]].params = Merge(@, d)]
                /\ Goto(p, "for")
           ELSE /\ Raise(p, "MlflowException")
                /\ UNCHANGED runs
    /\ UNCHANGED <<cfg, locals, experiments, active_experiment, dirs, files>>

\* line 126: for epoch in range(n_epochs)
range_has_next_inclusive(p) == epoch[p] + 1 <= n_epochs[p]
range_has_next(p) == epoch[p] + 1 < n_epochs[p]

For(p) ==
    /\ pc[p] = "for"
    /\ IF range_has_next(p)
       THEN /\ epoch' = [epoch EXCEPT ![p] = @ + 1]
            /\ Goto(p, "log_metrics")
       ELSE /\ UNCHANGED epoch
            /\ Goto(p, "end_run")
    /\ UNCHANGED <<cfg, n_epochs, found, activerun, savedir, param_calls, experiments,
                   active_experiment, runs, dirs, files>>

\* lines 135-141: eval_metrics = {"acc": epoch / n_epochs}; log_metrics(.., step=epoch)
\* the value epoch / n_epochs is kept as the pair <<epoch, n_epochs>>
LogMetrics(p) ==
    /\ pc[p] = "log_metrics"
    /\ runs' = [runs EXCEPT ![activerun[p]].metrics =
                   Append(@, Point("acc", epoch[p], <<epoch[p], n_epochs[p]>>))]
    /\ Goto(p, "log_metric")
    /\ UNCHANGED <<cfg, locals, param_calls, experiments, active_experiment, dirs, files>>

\* line 144: mlflow.log_metric("luck", random.random(), step=epoch)
\* random.random() draws v/2 for v in LuckDraws
LuckDraws == {0, 1}

LogMetric(p) ==
    /\ pc[p] = "log_metric"
    /\ \E v \in LuckDraws :
          runs' = [runs EXCEPT ![activerun[p]].metrics =
                      Append(@, Point("luck", epoch[p], <<v, 2>>))]
    /\ Goto(p, "save_outputs")
    /\ UNCHANGED <<cfg, locals, param_calls, experiments, active_experiment, dirs, files>>

\* lines 149-164: touch f"{i:02d}.csv" in savedir, log it, log the directory,
\* log the figure f"{i:02d}.png".  The name i is read at line 149.
SaveOutputs(p) ==
    /\ pc[p] = "save_outputs"
    /\ IF IsBound("i")
       THEN \E i \in 0..MaxEpochs :
               LET csv == Append(savedir[p], Fmt02d(i) \o ".csv")
                   indir == {f \in files \cup {csv} : SubSeq(f, 1, Len(f) - 1) = savedir[p]}
               IN  /\ files' = files \cup {csv}
                   /\ runs' = [runs EXCEPT ![activerun[p]].artifacts =
                                  @ \cup {f[Len(f)] : f \in indir} \cup {Fmt02d(i) \o ".png"}]
                   /\ Goto(p, "for")
       ELSE /\ Raise(p, "NameError")
            /\ UNCHANGED <<files, runs>>
    /\ UNCHANGED <<cfg, locals, param_calls, experiments, active_experiment, dirs>>

\* line 169: mlflow.end_run()
EndRun(p) ==
    /\ pc[p] = "end_run"
    /\ runs' = [runs EXCEPT ![activerun[p]].status = "closed"]
    /\ Goto(p, "done")
    /\ UNCHANGED <<cfg, locals, param_calls, experiments, active_experiment, dirs, files>>

\* the statements inside the training loop that call the backend or the filesystem
EpochSteps == {"log_metrics", "log_metric", "save_outputs"}

\* invocation p is at a call of the backend or the filesystem in the loop
\* body; line 149 reads i before it calls anything
CanFail(p) ==
    \/ pc[p] \in {"log_metrics", "log_metric"}
    \/ pc[p] = "save_outputs" /\ IsBound("i")

\* a backend or filesystem call of a training epoch raises; main has no handler
Failure_handled(p) ==
    /\ CanFail(p)
    /\ Raise(p, "BackendError")
    /\ runs' = [runs EXCEPT ![activerun[p]].status = "closed"]
    /\ UNCHANGED <<cfg, locals, param_calls, experiments, active_experiment, dirs, files>>
Failure(p) ==
    /\ CanFail(p)
    /\ Raise(p, "BackendError")
    /\ UNCHANGED <<cfg, locals, param_calls, experiments, active_experiment, runs,
                   dirs, files>>

Next ==
    \E p \in Procs :
        \/ Unpack(p)
        \/ GetExperiment(p)
        \/ CreateExperiment(p)
        \/ SetExperiment(p)
        \/ StartRun(p)
        \/ Savedir(p)
        \/ LogParams(p)
        \/ LogParam(p)
        \/ For(p)
        \/ LogMetrics(p)
        \/ LogMetric(p)
        \/ SaveOutputs(p)
        \/ EndRun(p)
        \/ Failure(p)

Spec == Init /\ [][Next]_vars

-----------------------------------------------------------------------------
(* Properties *)

\* the statements of main in program order
Rank(label) ==
    CASE label = "unpack" -> 1
      [] label = "get_experiment" -> 2
      [] label = "create_experiment" -> 3
      [] label = "set_experiment" -> 4
      [] label = "start_run" -> 5
      [] label = "savedir" -> 6
      [] label = "log_params" -> 7
      [] label = "log_param" -> 8
      [] label = "for" -> 9
      [] label = "log_metrics" -> 10
      [] label = "log_metric" -> 11
      [] label = "save_outputs" -> 12
      [] label = "end_run" -> 13
      [] label = "done" -> 14
      [] OTHER -> 0

\* the statement invocation p is at, or was at when it raised
At(p) == IF pc[p] = "failed" THEN err[p].at ELSE pc[p]

Terminal(p) == pc[p] \in {"done", "failed"}

Valid(p) == RequiredKeys \subseteq DOMAIN cfg[p]

\* the configuration of the spec's scenarios: the required keys and no other
Plain(p) == DOMAIN cfg[p] = RequiredKeys

\* a call of the backend or the filesystem raised
BackendRaised(p) == err[p].type \in {"BackendError", "MlflowException"}

Run(p) == runs[activerun[p]]

AccSteps(p) == {Run(p).metrics[i].step : i \in {j \in DOMAIN Run(p).metrics :
                                                   Run(p).metrics[j].key = "acc"}}

AccPoints(p) == Cardinality({j \in DOMAIN Run(p).metrics : Run(p).metrics[j].key = "acc"})

InSavedir(p) == {f \in files : SubSeq(f, 1, Len(f) - 1) = savedir[p]}

C2_EpochsComplete ==
    \A p \in Procs :
        (/\ Terminal(p)
         /\ Plain(p)
         /\ cfg[p].n_epochs >= 1
         /\ ~BackendRaised(p))
        => /\ pc[p] = "done"
           /\ Run(p).status = "closed"
           /\ AccPoints(p) = cfg[p].n_epochs
           /\ AccSteps(p) = 0..(cfg[p].n_epochs - 1)
           /\ \A k \in 0..(cfg[p].n_epochs - 1) :
                 Append(savedir[p], Fmt02d(k) \o ".csv") \in files

\* C3: an invocation with n_epochs = 0 never enters the loop body (no metric,
\* no artifact, no file written), its run is active from start_run on, and
\* when no backend call raised it ends at done with the run closed.
C3_ZeroEpochs ==
    \A p \in Procs :
        (Valid(p) /\ cfg[p].n_epochs = 0)
        => /\ pc[p] \notin EpochSteps
           /\ epoch[p] = -1
           /\ activerun[p] # 0 =>
                 /\ Run(p).metrics = <<>>
                 /\ Run(p).artifacts = {}
                 /\ Run(p).status = IF pc[p] = "done" THEN "closed" ELSE "active"
           /\ savedir[p] # <<>> => InSavedir(p) \subseteq {StaleFile}
           /\ (Terminal(p) /\ ~BackendRaised(p)) => pc[p] = "done"

C3_Witness ==
    \E p \in Procs :
        /\ Valid(p) /\ cfg[p].n_epochs = 0
        /\ pc[p] = "done"
        /\ Run(p).status = "closed"

\* C4: when the K invocations of a sweep over lr, all with the same expname
\* and a plain configuration, have ended, there are exactly K runs under one
\* experiment, with distinct run ids and output directories, each holding its
\* invocation's parameters.
C4_SweepRuns ==
    (/\ \A p \in Procs : Terminal(p) /\ Plain(p)
     /\ \A p, q \in Procs : cfg[p].expname = cfg[q].expname)
    => /\ Len(runs) = NumProcs
       /\ \A p \in Procs :
             /\ activerun[p] # 0
             /\ \A k \in DOMAIN cfg[p] :
                   k \in DOMAIN Run(p).params /\ Run(p).params[k] = cfg[p][k]
       /\ \A p, q \in Procs :
             p # q => /\ activerun[p] # activerun[q]
                      /\ savedir[p] # savedir[q]
                      /\ Run(p).experiment_id = Run(q).experiment_id

\* C5: whenever a run holds a metric or an artifact, or its invocation is in
\* (or raised in) the training loop, every key of the configuration and
\* "argv" are parameters of the run.
C5_ParamsBeforeTraining ==
    \A p \in Procs :
        (/\ activerun[p] # 0
         /\ \/ Run(p).metrics # <<>>
            \/ Run(p).artifacts # {}
            \/ Rank(At(p)) >= 9)
        => /\ \A k \in DOMAIN cfg[p] :
                 k \in DOMAIN Run(p).params /\ Run(p).params[k] = cfg[p][k]
           /\ "argv" \in DOMAIN Run(p).params

C5_Witness ==
    \E p \in Procs :
        /\ pc[p] = "failed"
        /\ err[p].at \in EpochSteps
        /\ Run(p).metrics # <<>>

\* C6: main issues at most one log of every parameter key, and no parameter
\* log is rejected.
C6_ParamKeysLoggedOnce ==
    \A p \in Procs :
        /\ \A k \in DOMAIN param_calls[p] : param_calls[p][k] <= 1
        /\ ~(/\ pc[p] = "failed"
             /\ err[p].at \in {"log_params", "log_param"}
             /\ err[p].type = "MlflowException")

\* C7: a run appears as active, by the start_run of one invocation; it only
\* changes from active to closed; a closed run stays closed; the invocations
\* that started a run hold pairwise distinct runs, one run each.
C7_RunLifecycle ==
    [][/\ \A r \in DOMAIN runs :
             /\ r \in DOMAIN runs'
             /\ runs[r].status = "closed" => runs'[r].status = "closed"
       /\ \A r \in DOMAIN runs' :
             /\ runs'[r].status \in {"active", "closed"}
             /\ r \notin DOMAIN runs => runs'[r].status = "active"
             /\ \E p \in Procs : activerun'[p] = r
       /\ \A p, q \in Procs :
             (p # q /\ activerun'[p] # 0) => activerun'[p] # activerun'[q]
       /\ \A p \in Procs :
             /\ activerun[p] # 0 => activerun'[p] = activerun[p]
             /\ (activerun[p] = 0 /\ activerun'[p] # 0) =>
                   /\ pc[p] = "start_run"
                   /\ activerun'[p] \notin DOMAIN runs
       /\ Len(runs') = Cardinality({p \in Procs : activerun'[p] # 0})]_vars

C7_Witness ==
    \E p, q \in Procs :
        /\ p # q
        /\ pc[p] = "done" /\ pc[q] = "done"
        /\ Run(p).status = "closed" /\ Run(q).status = "closed"

\* C8: the step of lines 102-104 sets savedir to outputs/<expname>/<run id>,
\* creates it (with its parents) exactly when it did not exist, and leaves an
\* existing directory and every file as they were.
C8_OutputDirectory ==
    [][\A p \in Procs :
          (pc[p] = "savedir" /\ pc'[p] # "savedir")
          => LET path == <<"outputs", cfg[p].expname, ToString(activerun[p])>>
             IN  /\ savedir'[p] = path
                 /\ path \in dirs'
                 /\ files' = files
                 /\ path \in dirs => dirs' = dirs
                 /\ path \notin dirs => dirs' = dirs \cup Prefixes(path)]_vars

C8_Witness ==
    \E p, q \in Procs :
        /\ savedir[p] = StaleDir /\ StaleFile \in files
        /\ savedir[q] # <<>> /\ savedir[q] # StaleDir /\ savedir[q] \in dirs

EarlyKeys == {"n_epochs", "lr", "batch_size", "expname"}

FirstAccess(p) ==
    IF ~({"n_epochs", "lr", "batch_size"} \subseteq DOMAIN cfg[p]) THEN "unpack"
    ELSE IF ~Has(p, "expname") THEN "get_experiment"
    ELSE "start_run"

C10_MissingKey ==
    [][\A p \in Procs :
          (pc'[p] # pc[p] /\ ~Valid(p))
          => /\ UNCHANGED <<runs, dirs, files>>
             /\ activerun'[p] = 0 /\ savedir'[p] = <<>>
             /\ Rank(pc[p]) <= Rank(FirstAccess(p))
             /\ ~(EarlyKeys \subseteq DOMAIN cfg[p]) =>
                   /\ UNCHANGED experiments
                   /\ active_experiment'[p] = 0
             /\ pc[p] = FirstAccess(p) =>
                   /\ pc'[p] = "failed"
                   /\ err'[p] = [type |-> "ConfigAttributeError", at |-> FirstAccess(p)]
             /\ (pc'[p] = "failed" /\ FirstAccess(p) = "start_run"
                   /\ err'[p].type = "ConfigAttributeError") =>
                   /\ active_experiment[p] # 0
                   /\ experiments[active_experiment[p]].name = cfg[p].expname]_vars

C10_Witness ==
    \E p \in Procs :
        /\ ~Has(p, "runname")
        /\ pc[p] = "failed"
        /\ err[p] = [type |-> "ConfigAttributeError", at |-> "start_run"]
        /\ active_experiment[p] # 0
        /\ activerun[p] = 0

====
